---- MODULE Spec2Model ----
(***************************************************************************)
(* Model of plot_contacts.py: the residue-contact reduction, the region of *)
(* interest selection, the heatmap matrices, the outlier filter, the       *)
(* domain interval normalisation, the domain annotation and aggregation,   *)
(* the unique-pair aggregation and the run of the script.                  *)
(*                                                                         *)
(* A data frame is a sequence of records, one per row, in row order; the   *)
(* field idx of a row is its pandas index label.  Column names keep the    *)
(* source's names with "_" for the blank.  Median distances are integers   *)
(* (tenths of an Angstrom): the code only compares them.                   *)
(***************************************************************************)
EXTENDS Integers, Sequences, FiniteSets, TLC

VARIABLES
    pc,                 \* position of the run
    error,              \* the exception that ended the run, "" when none
    args_roi,           \* --roi argument: a string as a sequence of characters
    roi,                \* roi_limits: NoRoi or <<lo, hi>>
    df_contacts_all,    \* the atom-level contacts table of the contacts CSV
    df_tmp,             \* the oriented table handed to get_residues_in_contact
    residues_contacts,  \* the table get_residues_in_contact returned
    res_dist_thr,       \* --residues-distance
    outliers,           \* the table outliers_contacts returned
    raw,                \* the domains table of the domains CSV
    use_embedded,       \* --embedded-domains
    domains,            \* the table get_domains returned
    df_not_unique,      \* the input of unique_residues_pairs
    df_uniques,         \* the table unique_residues_pairs returned
    columns,            \* what the columns of the contacts CSV hold
    parameters,         \* the YAML parameters document
    args_domains,       \* --domains is given
    source_distances,   \* the distances matrix of the heatmap
    source_nb_contacts, \* the contacts count matrix of the heatmap
    source,             \* the contacts by domain of acceptors_domains_involved
    written,            \* the output files saved so far
    exit_code           \* the exit status of the process, -1 while it runs

vars == <<pc, error, args_roi, roi, df_contacts_all, df_tmp, residues_contacts,
          res_dist_thr, outliers, raw, use_embedded, domains, df_not_unique,
          df_uniques, columns, parameters, args_domains, source_distances,
          source_nb_contacts, source, written, exit_code>>

contactsVars == <<args_roi, roi, df_contacts_all, df_tmp, residues_contacts,
                  res_dist_thr, outliers>>
domainsVars == <<raw, use_embedded, domains>>
uniqueVars == <<df_not_unique, df_uniques>>
filesVars == <<columns, parameters, args_domains>>
heatmapVars == <<source_distances, source_nb_contacts>>
outputVars == <<source, written, exit_code>>

-----------------------------------------------------------------------------
(* Bounds of the explored inputs.                                          *)

MaxRows == 3        \* rows of a contacts table given to the reducer
MaxPos == 2         \* residue positions 1..MaxPos of those tables
MaxDist == 2        \* median distances 1..MaxDist
MaxRowsRoi == 2     \* rows of a contacts table given to the selector and the filter
MaxPosRoi == 3      \* residue positions 1..MaxPosRoi of those tables
MaxThr == 3         \* residue distance thresholds -1..MaxThr
MaxRoiLen == 3      \* characters of a --roi argument
MaxDomRows == 3     \* rows of a domains table
MaxDomPos == 4      \* starts and stops 1..MaxDomPos of a domains table
MaxAnnRows == 2     \* rows of a contacts table given to the annotator
MaxAnnPos == 3      \* residues of the annotated protein: positions, starts, stops
MaxAnnDomRows == 3  \* rows of a domains table given to the annotator
MaxRunRows == 1     \* rows of the contacts table of a whole run
MaxRunPos == 2      \* residues of the protein of a whole run
MaxRunDomRows == 1  \* rows of the domains table of a whole run

NoRoi == <<>>       \* roi_limits = None
NoTable == <<>>     \* a table not computed yet

Range(s) == {s[i] : i \in 1..Len(s)}

Abs(x) == IF x < 0 THEN -x ELSE x

Max(S) == CHOOSE x \in S : \A y \in S : y <= x

\* the sum of the column col over the rows of df
RECURSIVE SumFrom(_, _, _)
SumFrom(df, col, i) == IF i > Len(df) THEN 0 ELSE df[i][col] + SumFrom(df, col, i + 1)

SumColumn(df, col) == SumFrom(df, col, 1)

-----------------------------------------------------------------------------
(* Input tables.  A position names one residue of the protein, so the      *)
(* residue name of a row is a function of its position; each atom contact  *)
(* has its own identifier.                                                 *)

ResidueNames == <<"ALA", "GLY", "SER", "LEU", "VAL">>

ResidueOf(p) == ResidueNames[((p - 1) % Len(ResidueNames)) + 1]

ContactId(i) == "c" \o ToString(i)

ContactRow(i, d, a, dist) ==
    [idx |-> i, contact |-> ContactId(i),
     donor_position |-> d, donor_residue |-> ResidueOf(d),
     acceptor_position |-> a, acceptor_residue |-> ResidueOf(a),
     median_distance |-> dist]

\* df is a table of at most n rows, read with a RangeIndex 0..k-1; PP holds the
\* <<donor position, acceptor position>> pairs and D the distances of a row
IsContactTable(df, n, PP, D) ==
    \E k \in 0..n : \E t \in [1..k -> PP \X D] :
        df = [i \in 1..k |-> ContactRow(i - 1, t[i][1][1], t[i][1][2], t[i][2])]

-----------------------------------------------------------------------------
(* get_residues_in_contact                                                 *)

\* f"{first}_{second}"
CombinationKey(row) ==
    ToString(row.ordinate_position) \o row.ordinate_residue \o "_"
        \o ToString(row.abscissa_position) \o row.abscissa_residue

\* the selection that takes (p,q) and (q,p) for one pair
SamePositionsEitherOrder(df, row) ==
    SelectSeq(df, LAMBDA r :
        \/ (r.ordinate_position = row.ordinate_position
            /\ r.abscissa_position = row.abscissa_position)
        \/ (r.abscissa_position = row.ordinate_position
            /\ r.ordinate_position = row.abscissa_position))

\* tmp_df: both sides of the "|" select the same rows
SamePositions(df, row) ==
    SelectSeq(df, LAMBDA r :
        \/ (r.ordinate_position = row.ordinate_position
            /\ r.abscissa_position = row.abscissa_position)
        \/ (r.abscissa_position = row.abscissa_position
            /\ r.ordinate_position = row.ordinate_position))

\* the label of the last row holding the minimum
IdxMinLast(tmp_df) ==
    LET isMin(i) == \A j \in 1..Len(tmp_df) :
                        tmp_df[i].median_distance <= tmp_df[j].median_distance
        last == CHOOSE i \in 1..Len(tmp_df) :
                    isMin(i) /\ \A j \in (i + 1)..Len(tmp_df) : ~isMin(j)
    IN  tmp_df[last].idx

\* idxmin: the label of the first row holding the minimum
IdxMin(tmp_df) ==
    LET isMin(i) == \A j \in 1..Len(tmp_df) :
                        tmp_df[i].median_distance <= tmp_df[j].median_distance
        first == CHOOSE i \in 1..Len(tmp_df) :
                     isMin(i) /\ \A j \in 1..(i - 1) : ~isMin(j)
    IN  tmp_df[first].idx

\* tmp_df.index.drop(idx_min), as a list
IndexDrop(tmp_df, label) ==
    LET kept == SelectSeq(tmp_df, LAMBDA r : r.idx # label)
    IN  [i \in 1..Len(kept) |-> kept[i].idx]

RECURSIVE ScanCombinations(_, _, _)
ScanCombinations(df, i, st) ==
    IF i > Len(df) THEN st
    ELSE LET row == df[i]
             key == CombinationKey(row)
         IN  IF key \in Range(st.combinations)
             THEN ScanCombinations(df, i + 1, st)
             ELSE LET tmp_df == SamePositions(df, row)
                      idx_min == IdxMin(tmp_df)
                      tmp_index_to_remove == IndexDrop(tmp_df, idx_min)
                  IN  ScanCombinations(df, i + 1,
                          [combinations |-> Append(st.combinations, key),
                           idx_to_remove |-> st.idx_to_remove \o tmp_index_to_remove,
                           combinations_nb_contacts |->
                               Append(st.combinations_nb_contacts, Len(tmp_df))])

Combinations(df) ==
    ScanCombinations(df, 1, [combinations |-> <<>>, idx_to_remove |-> <<>>,
                             combinations_nb_contacts |-> <<>>])

\* df.drop(labels)
DropLabels(df, labels) == SelectSeq(df, LAMBDA r : r.idx \notin Range(labels))

\* df[column] = values, positional; the lengths must agree
WithAtomsContacts(df, values) ==
    [i \in 1..Len(df) |->
        [f \in DOMAIN df[i] \cup {"atoms_contacts"} |->
            IF f = "atoms_contacts" THEN values[i] ELSE df[i][f]]]

\* sort_values(by=["ordinate position"]): rows of equal position keep their order
RECURSIVE SortByOrdinate(_)
SortByOrdinate(df) ==
    IF df = <<>> THEN <<>>
    ELSE LET m == CHOOSE i \in 1..Len(df) :
                      /\ \A j \in 1..Len(df) :
                            df[i].ordinate_position <= df[j].ordinate_position
                      /\ \A j \in 1..(i - 1) :
                            df[j].ordinate_position > df[i].ordinate_position
             rest == [k \in 1..(Len(df) - 1) |-> IF k < m THEN df[k] ELSE df[k + 1]]
         IN  <<df[m]>> \o SortByOrdinate(rest)

\* df.drop(idx_to_remove), then the column and the sort: the assignment of the
\* column raises ValueError on a length mismatch, and no table is returned
ReductionOf(st, kept) ==
    [raises |-> Len(kept) # Len(st.combinations_nb_contacts),
     df |-> IF Len(kept) # Len(st.combinations_nb_contacts) THEN NoTable
            ELSE SortByOrdinate(WithAtomsContacts(kept, st.combinations_nb_contacts))]

\* the outcome of get_residues_in_contact(df), after one pass of the loop
Reduction(df) ==
    CHOOSE r \in {ReductionOf(st, DropLabels(df, st.idx_to_remove)) :
                    st \in {Combinations(df)}} : TRUE

ReducerRaises(df) == Reduction(df).raises

GetResiduesInContact(df) == Reduction(df).df

-----------------------------------------------------------------------------
(* extract_residues_contacts                                               *)

\* Series.between(lo, hi), inclusive on both sides
Between(x, lo, hi) == lo <= x /\ x <= hi

\* two rows hold the same values in every column (the index label is no column)
SameValues(r, s) == \A f \in DOMAIN r \ {"idx"} : r[f] = s[f]

\* drop_duplicates(): the first of the rows holding the same values is kept
DropDuplicates(df) ==
    LET keep(i) == \A j \in 1..(i - 1) : ~SameValues(df[j], df[i])
        n == Cardinality({i \in 1..Len(df) : keep(i)})
        pos(k) == CHOOSE i \in 1..Len(df) :
                      keep(i) /\ Cardinality({j \in 1..i : keep(j)}) = k
    IN  [k \in 1..n |-> df[pos(k)]]

\* the selection without drop_duplicates()
SelectRoiKeepingDuplicates(df, r) ==
    IF r # NoRoi
    THEN SelectSeq(df, LAMBDA x : Between(x.donor_position, r[1], r[2]))
             \o SelectSeq(df, LAMBDA x : Between(x.acceptor_position, r[1], r[2]))
    ELSE df

\* the rows the orientation loop reads
SelectRoi(df, r) ==
    IF r # NoRoi
    THEN LET df_donors == SelectSeq(df, LAMBDA x : Between(x.donor_position, r[1], r[2]))
             df_acceptors ==
                 SelectSeq(df, LAMBDA x : Between(x.acceptor_position, r[1], r[2]))
         IN  DropDuplicates(df_donors \o df_acceptors)
    ELSE df

Oriented(row, asDonor) ==
    [idx |-> row.idx, contact |-> row.contact,
     ordinate_position |-> IF asDonor THEN row.donor_position ELSE row.acceptor_position,
     ordinate_residue |-> IF asDonor THEN row.donor_residue ELSE row.acceptor_residue,
     abscissa_position |-> IF asDonor THEN row.acceptor_position ELSE row.donor_position,
     abscissa_residue |-> IF asDonor THEN row.acceptor_residue ELSE row.donor_residue,
     median_distance |-> row.median_distance,
     ordinate_type |-> IF asDonor THEN "donor" ELSE "acceptor"]

\* df_tmp
OrientContacts(df, r) ==
    LET sel == SelectRoi(df, r)
    IN  [i \in 1..Len(sel) |->
            Oriented(sel[i],
                     IF r # NoRoi
                     THEN r[1] <= sel[i].donor_position /\ sel[i].donor_position <= r[2]
                     ELSE TRUE)]

-----------------------------------------------------------------------------
(* outliers_contacts                                                       *)

\* the test with "<=" for "<"
TooCloseOrAtThreshold(row, thr) ==
    Abs(row.ordinate_position - row.abscissa_position) <= thr

\* abs(row["ordinate position"] - row["abscissa position"]) < res_dist_thr
TooClose(row, thr) == Abs(row.ordinate_position - row.abscissa_position) < thr

RECURSIVE IdxToRemoveForResidueDistance(_, _, _)
IdxToRemoveForResidueDistance(df, thr, i) ==
    IF i > Len(df) THEN <<>>
    ELSE (IF TooClose(df[i], thr)
          THEN <<df[i].idx>> ELSE <<>>)
         \o IdxToRemoveForResidueDistance(df, thr, i + 1)

\* reset_index(drop=True)
ResetIndex(df) == [i \in 1..Len(df) |-> [df[i] EXCEPT !.idx = i - 1]]

OutliersContactsTable(df, thr) ==
    ResetIndex(DropLabels(df, IdxToRemoveForResidueDistance(df, thr, 1)))

-----------------------------------------------------------------------------
(* get_domains.  A row of the domains table is [domain, start, stop,       *)
(* color]; the row at place i of the sequence has the index label i - 1.   *)

GapColor == "#cecece"

\* embedded_raw_idx, as the set of the places of the embedded rows
RECURSIVE EmbeddedRows(_, _, _)
EmbeddedRows(rows, i, previous_stop) ==
    IF i > Len(rows) THEN {}
    ELSE IF rows[i].stop < previous_stop
         THEN {i} \cup EmbeddedRows(rows, i + 1, previous_stop)
         ELSE EmbeddedRows(rows, i + 1, rows[i].stop)

\* no row is taken as embedded
NoEmbeddedRawIdx(rows) == {}

EmbeddedRawIdx(rows) == EmbeddedRows(rows, 1, 0)

\* data["stop"][-1] = stop
WithLastStop(data, stop) == [data EXCEPT ![Len(data)].stop = stop]

\* the row naming the part no domain covers, before the row at place i
UndefinedDomain(rows, i, st) ==
    [domain |-> IF i - 1 = 0
                THEN "before " \o rows[i].domain
                ELSE "between " \o st.previous.domain \o " and " \o rows[i].domain,
     start |-> st.expected_start,
     stop |-> rows[i].start - 1,
     color |-> GapColor]

\* the step of an embedded row when embedded domains are used
EmbeddedStep(rows, i, st) ==
    [data |-> Append(WithLastStop(st.data, rows[i].start - 1), rows[i]),
     expected_start |-> rows[i].stop + 1,
     previous |-> [st.previous EXCEPT !.embedded = TRUE]]

\* the rest of the embedding domain, registered when a row follows
ClosedEmbedding(st) ==
    IF st.previous.embedded
    THEN [data |-> Append(st.data, [domain |-> st.previous.domain,
                                    start |-> st.expected_start,
                                    stop |-> st.previous.stop,
                                    color |-> st.previous.color]),
          expected_start |-> st.previous.stop + 1,
          previous |-> [st.previous EXCEPT !.embedded = FALSE]]
    ELSE st

\* the test with ">=" for ">"
StartsAtOrAfter(start, expected_start) == start >= expected_start

\* the row starts after the expected start: there is a part to fill in
StartsAfter(start, expected_start) == start > expected_start

\* the step of a row that is not embedded
DomainStep(rows, i, st) ==
    LET closed == ClosedEmbedding(st)
        filled == IF StartsAfter(rows[i].start, closed.expected_start)
                  THEN Append(closed.data, UndefinedDomain(rows, i, closed))
                  ELSE closed.data
    IN  [data |-> Append(filled, rows[i]),
         expected_start |-> rows[i].stop + 1,
         previous |-> [embedded |-> closed.previous.embedded,
                       domain |-> rows[i].domain,
                       stop |-> rows[i].stop,
                       color |-> rows[i].color]]

RECURSIVE UpdateDomains(_, _, _, _)
UpdateDomains(rows, embedded, i, st) ==
    IF i > Len(rows) THEN st
    ELSE UpdateDomains(rows, embedded, i + 1,
             IF i \in EmbeddedRawIdx(rows)
             THEN (IF embedded THEN EmbeddedStep(rows, i, st) ELSE st)
             ELSE DomainStep(rows, i, st))

GetDomainsTable(rows, embedded) ==
    UpdateDomains(rows, embedded, 1,
        [data |-> <<>>,
         expected_start |-> 1,
         previous |-> [embedded |-> FALSE, domain |-> "None", stop |-> 0,
                       color |-> "None"]]).data

-----------------------------------------------------------------------------
(* unique_residues_pairs                                                   *)

\* the positions in descending order
RECURSIVE SortedDescending(_)
SortedDescending(S) ==
    IF S = {} THEN <<>>
    ELSE LET m == CHOOSE x \in S : \A y \in S : y <= x
         IN  <<m>> \o SortedDescending(S \ {m})

\* sorted(list(set(...)))
RECURSIVE Sorted(_)
Sorted(S) ==
    IF S = {} THEN <<>>
    ELSE LET m == CHOOSE x \in S : \A y \in S : x <= y
         IN  <<m>> \o Sorted(S \ {m})

\* max(df[col])
MaxOfColumn(df, col) ==
    CHOOSE x \in {df[i][col] : i \in 1..Len(df)} :
        \A i \in 1..Len(df) : df[i][col] <= x

\* " | ".join(pair_contacts_ids)
RECURSIVE JoinContacts(_, _)
JoinContacts(df, i) ==
    IF i > Len(df) THEN ""
    ELSE IF i = Len(df) THEN df[i].contact
         ELSE df[i].contact \o " | " \o JoinContacts(df, i + 1)

\* the rows appended for one donor position
RECURSIVE PairsOfDonor(_, _, _, _)
PairsOfDonor(df_donors, acceptor_positions, k, col) ==
    IF k > Len(acceptor_positions) THEN <<>>
    ELSE LET acceptor_position == acceptor_positions[k]
             df_acceptors ==
                 SelectSeq(df_donors, LAMBDA r : r.acceptor_position = acceptor_position)
         IN  <<[donor_positions |-> df_donors[1].donor_position,
                donor_residues |-> df_donors[1].donor_residue,
                acceptor_positions |-> acceptor_position,
                acceptor_residues |-> df_acceptors[1].acceptor_residue,
                atoms_contacts |-> Len(df_acceptors),
                maximum_atoms_distance |-> MaxOfColumn(df_acceptors, col),
                contacts_ID |-> JoinContacts(df_acceptors, 1)]>>
             \o PairsOfDonor(df_donors, acceptor_positions, k + 1, col)

RECURSIVE PairsOfDonors(_, _, _, _)
PairsOfDonors(df, donor_positions, k, col) ==
    IF k > Len(donor_positions) THEN <<>>
    ELSE LET df_donors ==
                 SelectSeq(df, LAMBDA r : r.donor_position = donor_positions[k])
         IN  PairsOfDonor(df_donors,
                          Sorted({df_donors[i].acceptor_position : i \in 1..Len(df_donors)}),
                          1, col)
             \o PairsOfDonors(df, donor_positions, k + 1, col)

\* pd.DataFrame.from_dict(...): the rows get the labels 0, 1, ...
UniqueResiduesPairsTable(df, col) ==
    LET rows == PairsOfDonors(df, Sorted({df[i].donor_position : i \in 1..Len(df)}),
                              1, col)
    IN  [i \in 1..Len(rows) |->
            [f \in DOMAIN rows[i] \cup {"idx"} |->
                IF f = "idx" THEN i - 1 ELSE rows[i][f]]]

-----------------------------------------------------------------------------
(* heatmap_distances_nb_contacts.  A matrix is [index, columns, values]:    *)
(* the row labels, the column labels and the rows of cells; a cell is      *)
(* <<v>> when it holds v and <<>> when it holds None.                       *)

NoCell == <<>>

NoMatrix == [index |-> <<>>, columns |-> <<>>, values |-> <<>>]

\* f"{position}{residue}"
Label(position, residue) == ToString(position) \o residue

\* df.loc[df[col] == position, other].values[0]
FirstValue(df, col, position, other) ==
    LET i == CHOOSE k \in 1..Len(df) :
                 df[k][col] = position /\ \A j \in 1..(k - 1) : df[j][col] # position
    IN  df[i][other]

\* if label not in labels: labels.append(label)
AppendNew(labels, label) ==
    IF label \in Range(labels) THEN labels ELSE Append(labels, label)

\* the labels of the positions, in their order
RECURSIVE Labels(_, _, _, _, _)
Labels(df, positions, k, col, other) ==
    IF k = 0 THEN <<>>
    ELSE AppendNew(Labels(df, positions, k - 1, col, other),
                   Label(positions[k], FirstValue(df, col, positions[k], other)))

\* the cell read at any row of the abscissa, whatever its ordinate
CellOfAbscissa(df, ordinate_position, abscissa_position, col) ==
    LET dist == SelectSeq(df, LAMBDA r : r.abscissa_position = abscissa_position)
    IN  IF dist # <<>> THEN <<dist[1][col]>> ELSE NoCell

\* dist.values[0] if not dist.empty else None
CellOf(df, ordinate_position, abscissa_position, col) ==
    LET dist == SelectSeq(df, LAMBDA r :
                    /\ r.ordinate_position = ordinate_position
                    /\ r.abscissa_position = abscissa_position)
    IN  IF dist # <<>> THEN <<dist[1][col]>> ELSE NoCell

\* pd.DataFrame(lists, index=ordinates) with the columns renamed abscissas: the
\* list of an abscissa holds one cell for each ordinate
Matrix(df, col) ==
    LET unique_ordinate_positions ==
            Sorted({df[i].ordinate_position : i \in 1..Len(df)})
        unique_abscissa_positions ==
            Sorted({df[i].abscissa_position : i \in 1..Len(df)})
    IN  [index |-> Labels(df, unique_ordinate_positions,
                          Len(unique_ordinate_positions),
                          "ordinate_position", "ordinate_residue"),
         columns |-> Labels(df, unique_abscissa_positions,
                            Len(unique_abscissa_positions),
                            "abscissa_position", "abscissa_residue"),
         values |-> [i \in 1..Len(unique_ordinate_positions) |->
                        [j \in 1..Len(unique_abscissa_positions) |->
                            CellOf(df, unique_ordinate_positions[i],
                                   unique_abscissa_positions[j], col)]]]

HeatmapDistancesNbContacts(df) ==
    [source_distances |-> Matrix(df, "median_distance"),
     source_nb_contacts |-> Matrix(df, "atoms_contacts")]

-----------------------------------------------------------------------------
(* update_domains.  The two columns it inserts hold a domain name, or      *)
(* "None" for None.                                                         *)

NoDomain == "None"

\* the loop over the domains: every interval that holds the position assigns
\* its name
RECURSIVE RegionOf(_, _, _, _)
RegionOf(table, position, k, region) ==
    IF k > Len(table) THEN region
    ELSE RegionOf(table, position, k + 1,
                  IF table[k].start <= position /\ position <= table[k].stop
                  THEN table[k].domain
                  ELSE region)

\* donors_regions and acceptors_regions, one entry for each index label
DonorsRegions(df, table) ==
    [idx \in {df[i].idx : i \in 1..Len(df)} |->
        LET row_contacts == df[CHOOSE i \in 1..Len(df) : df[i].idx = idx]
        IN  RegionOf(table, row_contacts.ordinate_position, 1, NoDomain)]

AcceptorsRegions(df, table) ==
    [idx \in {df[i].idx : i \in 1..Len(df)} |->
        LET row_contacts == df[CHOOSE i \in 1..Len(df) : df[i].idx = idx]
        IN  RegionOf(table, row_contacts.abscissa_position, 1, NoDomain)]

\* df.insert(...): the lists are aligned on the index labels
UpdateDomainsTable(df, table) ==
    [i \in 1..Len(df) |->
        [f \in DOMAIN df[i] \cup {"ordinate_domains", "abscissa_domains"} |->
            IF f = "ordinate_domains" THEN DonorsRegions(df, table)[df[i].idx]
            ELSE IF f = "abscissa_domains" THEN AcceptorsRegions(df, table)[df[i].idx]
            ELSE df[i][f]]]

-----------------------------------------------------------------------------
(* acceptors_domains_involved.  The dict data, and the table source made   *)
(* of it, are the sequence of the [domain, number_of_contacts] items in    *)
(* insertion order.                                                        *)

\* data[domain] += the "atoms contacts" of every row of tmp
AddContacts(items, domain, tmp) ==
    LET total == SumColumn(tmp, "atoms_contacts")
    IN  IF \E k \in 1..Len(items) : items[k].domain = domain
        THEN [k \in 1..Len(items) |->
                 IF items[k].domain = domain
                 THEN [items[k] EXCEPT !.number_of_contacts = @ + total]
                 ELSE items[k]]
        ELSE Append(items, [domain |-> domain, number_of_contacts |-> total])

\* the loop over the rows of the domains table
RECURSIVE ContactsByDomain(_, _, _, _)
ContactsByDomain(df, table, k, items) ==
    IF k > Len(table) THEN items
    ELSE LET tmp == SelectSeq(df, LAMBDA r : r.abscissa_domains = table[k].domain)
         IN  ContactsByDomain(df, table, k + 1,
                 IF tmp # <<>> THEN AddContacts(items, table[k].domain, tmp)
                 ELSE items)

AcceptorsDomainsData(df, table) == ContactsByDomain(df, table, 1, <<>>)

-----------------------------------------------------------------------------
(* extract_roi                                                             *)

DigitChars == {"0", "1", "2", "3", "4", "5", "6", "7", "8", "9"}

DigitValue(c) == CHOOSE n \in 0..9 : ToString(n) = c

\* the last position of the run of digits that starts at i
RECURSIVE RunEnd(_, _)
RunEnd(s, i) ==
    IF i < Len(s) /\ s[i + 1] \in DigitChars THEN RunEnd(s, i + 1) ELSE i

\* "(\d+)-(\d+)" matches at i: \d+ is greedy, and a shorter first group would
\* be followed by a digit, not by the hyphen
MatchAt(s, i) ==
    /\ s[i] \in DigitChars
    /\ LET j == RunEnd(s, i)
       IN  j + 2 <= Len(s) /\ s[j + 1] = "-" /\ s[j + 2] \in DigitChars

\* int() of the digits s[i..j]
RECURSIVE IntOf(_, _, _)
IntOf(s, i, j) ==
    IF j < i THEN 0 ELSE 10 * IntOf(s, i, j - 1) + DigitValue(s[j])

\* pattern.search(): the leftmost match, or none
RoiMatches(s) == \E i \in 1..Len(s) : MatchAt(s, i)

ExtractRoiList(s) ==
    LET i == CHOOSE k \in 1..Len(s) : MatchAt(s, k) /\ \A m \in 1..(k - 1) : ~MatchAt(s, m)
        j == RunEnd(s, i)
    IN  <<IntOf(s, i, j), IntOf(s, j + 2, RunEnd(s, j + 2))>>

\* the characters of "{lo}-{hi}", the argument that names the region lo..hi
RECURSIVE Digits(_)
Digits(n) == IF n < 10 THEN <<ToString(n)>> ELSE Digits(n \div 10) \o <<ToString(n % 10)>>

RoiArgument(lo, hi) == Digits(lo) \o <<"-">> \o Digits(hi)

\* the --roi arguments of at most n characters
RoiAlphabet == {"1", "2", "-", "x"}

RoiStrings(n) == UNION {[1..k -> RoiAlphabet] : k \in 0..n}

-----------------------------------------------------------------------------
(* The contacts part of a run: extract_roi, extract_residues_contacts,     *)
(* then outliers_contacts on the table it returned.                        *)

IdleDomains == raw = NoTable /\ use_embedded = FALSE /\ domains = NoTable

IdleUnique == df_not_unique = NoTable /\ df_uniques = NoTable

IdleHeatmap == source_distances = NoMatrix /\ source_nb_contacts = NoMatrix

IdleOutput == source = <<>> /\ written = {} /\ exit_code = -1

\* a parameters document that can be read, of a protein of n residues
ReadableParameters(n) == [readable |-> TRUE, protein_length |-> n]

\* the contacts CSV has its columns, with numbers in them; the parameters can
\* be read; no domains file
WellFormedFiles(PP) ==
    /\ columns = "numeric"
    /\ parameters = ReadableParameters(Max({pp[1] : pp \in PP} \cup {pp[2] : pp \in PP}))
    /\ args_domains = FALSE

\* the files and the arguments are fixed before the run: a contacts table of at
\* most n rows with the positions PP and the distances D
InitContacts(n, PP, D, arguments) ==
    /\ pc = "start"
    /\ error = ""
    /\ args_roi \in arguments
    /\ roi = NoRoi
    /\ IsContactTable(df_contacts_all, n, PP, D)
    /\ df_tmp = NoTable
    /\ residues_contacts = NoTable
    /\ res_dist_thr = 0
    /\ outliers = NoTable
    /\ IdleDomains
    /\ IdleUnique
    /\ WellFormedFiles(PP)
    /\ IdleHeatmap
    /\ IdleOutput

\* if args.roi: roi_limits = extract_roi(args.roi) else: roi_limits = None
ExtractRoi ==
    /\ pc = "start"
    /\ IF args_roi = <<>>
       THEN pc' = "roi_extracted" /\ roi' = NoRoi /\ error' = ""
       ELSE IF RoiMatches(args_roi)
            THEN pc' = "roi_extracted" /\ roi' = ExtractRoiList(args_roi) /\ error' = ""
            ELSE pc' = "failed" /\ roi' = NoRoi /\ error' = "ArgumentTypeError"
    /\ UNCHANGED <<args_roi, df_contacts_all, df_tmp, residues_contacts,
                   res_dist_thr, outliers>>
    /\ UNCHANGED <<domainsVars, uniqueVars, filesVars, heatmapVars, outputVars>>

\* parameters_contacts_analysis = get_contacts_analysis_parameters(args.parameters):
\* the exception of a document that cannot be read is no ImportError, and the
\* except clause does not catch it
GetContactsAnalysisParameters ==
    /\ pc = "roi_extracted"
    /\ IF parameters.readable
       THEN pc' = "parameters_loaded" /\ error' = ""
       ELSE pc' = "failed" /\ error' = "OSError"
    /\ UNCHANGED <<contactsVars, domainsVars, uniqueVars, filesVars, heatmapVars,
                   outputVars>>

\* a column of the contacts CSV is missing: the first df_contacts_all[...]
\* raises KeyError
ExtractionKeyError == columns = "missing_column"

\* a column holds text: Series.between() compares the text of a position with
\* the bounds of the region, idxmin() reduces the text of a distance
ExtractionTypeError(oriented) ==
    \/ columns = "position_text" /\ roi # NoRoi /\ df_contacts_all # <<>>
    \/ columns = "distance_text" /\ oriented # <<>>

\* residues_contacts = extract_residues_contacts(args.input, roi_limits); the
\* except clauses of KeyError and TypeError read args.col_distance, which
\* the parser does not define: AttributeError leaves the handler
ExtractResiduesContacts ==
    /\ pc = "parameters_loaded"
    /\ IF ExtractionKeyError
       THEN /\ pc' = "failed"
            /\ error' = "AttributeError"
            /\ df_tmp' = NoTable
            /\ residues_contacts' = NoTable
       ELSE LET oriented == OrientContacts(df_contacts_all, roi)
            IN  IF ExtractionTypeError(oriented)
                THEN /\ pc' = "failed"
                     /\ error' = "AttributeError"
                     /\ df_tmp' = NoTable
                     /\ residues_contacts' = NoTable
                ELSE /\ df_tmp' = oriented
                     /\ \E reduction \in {Reduction(oriented)} :
                            IF reduction.raises
                            THEN /\ pc' = "failed"
                                 /\ error' = "ValueError"
                                 /\ residues_contacts' = NoTable
                            ELSE /\ pc' = "contacts_extracted"
                                 /\ error' = ""
                                 /\ residues_contacts' = reduction.df
    /\ UNCHANGED <<args_roi, roi, df_contacts_all, res_dist_thr, outliers>>
    /\ UNCHANGED <<domainsVars, uniqueVars, filesVars, heatmapVars, outputVars>>

\* heatmap_contacts(residues_contacts, ...): the matrices, then the figure is
\* saved; whether sns.heatmap() raises on matrices without a cell depends on
\* the library
HeatmapContacts ==
    /\ pc = "contacts_extracted"
    /\ source_distances' = HeatmapDistancesNbContacts(residues_contacts).source_distances
    /\ source_nb_contacts'
           = HeatmapDistancesNbContacts(residues_contacts).source_nb_contacts
    /\ \E raises \in (IF residues_contacts = <<>> THEN BOOLEAN ELSE {FALSE}) :
           IF raises
           THEN pc' = "failed" /\ error' = "ValueError" /\ written' = written
           ELSE /\ pc' = "heatmap_saved"
                /\ error' = ""
                /\ written' = written \cup {"heatmap"}
    /\ UNCHANGED <<contactsVars, domainsVars, uniqueVars, filesVars, source,
                   exit_code>>

\* outliers = outliers_contacts(residues_contacts, args.residues_distance):
\* the rows are dropped from the caller's table, which is also the one
\* returned; the difference of two positions that are text raises TypeError
\* at the first row
OutliersContacts ==
    /\ pc = "heatmap_saved"
    /\ \E t \in (-1)..MaxThr :
        /\ res_dist_thr' = t
        /\ IF columns = "position_text" /\ residues_contacts # <<>>
           THEN /\ pc' = "failed"
                /\ error' = "TypeError"
                /\ UNCHANGED <<residues_contacts, outliers>>
           ELSE /\ pc' = "outliers_filtered"
                /\ error' = ""
                /\ residues_contacts' = OutliersContactsTable(residues_contacts, t)
                /\ outliers' = residues_contacts'
    /\ UNCHANGED <<args_roi, roi, df_contacts_all, df_tmp>>
    /\ UNCHANGED <<domainsVars, uniqueVars, filesVars, heatmapVars, outputVars>>

\* the reducer on every table, no region
Init == InitContacts(MaxRows, (1..MaxPos) \X (1..MaxPos), 1..MaxDist, {<<>>})

Next == ExtractRoi \/ GetContactsAnalysisParameters \/ ExtractResiduesContacts

Spec == Init /\ [][Next]_vars

\* the selector on every region lo-hi, and on none
RoiArguments(P) == {<<>>} \cup {RoiArgument(r[1], r[2]) : r \in P \X P}

InitRoi ==
    InitContacts(MaxRowsRoi, (1..MaxPosRoi) \X (1..MaxPosRoi), {1},
                 RoiArguments(1..MaxPosRoi))

SpecRoi == InitRoi /\ [][Next]_vars

\* the matrices of the heatmap on the reduced tables
InitHeatmap ==
    InitContacts(MaxRowsRoi, (1..MaxPosRoi) \X (1..MaxPosRoi), 1..MaxDist, {<<>>})

NextHeatmap == Next \/ HeatmapContacts

SpecHeatmap == InitHeatmap /\ [][NextHeatmap]_vars

\* the filter on the reduced tables, for every threshold
InitOutliers ==
    InitContacts(MaxRowsRoi, (1..MaxPosRoi) \X (1..MaxPosRoi), {1}, {<<>>})

NextOutliers == NextHeatmap \/ OutliersContacts

SpecOutliers == InitOutliers /\ [][NextOutliers]_vars

\* every --roi argument
InitArgs ==
    InitContacts(MaxRowsRoi, (1..MaxPosRoi) \X (1..MaxPosRoi), {1},
                 RoiStrings(MaxRoiLen))

SpecArgs == InitArgs /\ [][Next]_vars

-----------------------------------------------------------------------------
(* Properties of the Residue Contact Reducer.  The table it receives is    *)
(* df_tmp and the one it returns is residues_contacts.                     *)

Reduced == pc = "contacts_extracted"

\* the run is past extract_residues_contacts
PastExtraction == pc \notin {"start", "roi_extracted", "parameters_loaded"}

RECURSIVE SumAtomsContacts(_, _)
SumAtomsContacts(df, i) ==
    IF i > Len(df) THEN 0 ELSE df[i].atoms_contacts + SumAtomsContacts(df, i + 1)

PositionPair(r) == <<r.ordinate_position, r.abscissa_position>>

UnorderedPair(r) == {r.ordinate_position, r.abscissa_position}

\* the rows of df that hold the <<ordinate, abscissa>> positions pp
RowsOfPair(df, pp) == {i \in 1..Len(df) : PositionPair(df[i]) = pp}

\* C1, as stated: the reducer returns a table in which no two rows hold the
\* same unordered pair of positions, a row (p,q) and a row (q,p) counting as
\* the same pair, and whose "atoms contacts" sum to the number of input rows.
C1_UnorderedPairsUnique ==
    PastExtraction =>
        /\ Reduced
        /\ \A i, j \in 1..Len(residues_contacts) :
              i # j => UnorderedPair(residues_contacts[i])
                           # UnorderedPair(residues_contacts[j])
        /\ SumAtomsContacts(residues_contacts, 1) = Len(df_tmp)

\* C1, amended: the reducer returns a table in which no two rows hold the same
\* ordered (ordinate position, abscissa position) pair, and whose "atoms
\* contacts" sum to the number of input rows; a row (p,q) and a row (q,p) are
\* two pairs and both are kept.
C1_OrderedPairsUnique ==
    PastExtraction =>
        /\ Reduced
        /\ \A i, j \in 1..Len(residues_contacts) :
              i # j => PositionPair(residues_contacts[i])
                           # PositionPair(residues_contacts[j])
        /\ SumAtomsContacts(residues_contacts, 1) = Len(df_tmp)

\* a table of three rows, two of them of one pair, reduced to two rows that
\* hold the pairs (p,q) and (q,p)
C1_Witness ==
    /\ Reduced
    /\ Len(df_tmp) = 3
    /\ Len(residues_contacts) = 2
    /\ PositionPair(residues_contacts[1]) = <<1, 2>>
    /\ PositionPair(residues_contacts[2]) = <<2, 1>>

\* C2: every row the reducer returns carries as "atoms contacts" the number of
\* input rows that hold its pair of positions, in whatever order the groups
\* and their rows of minimum distance come in the input.
C2_CountOfOwnGroup ==
    Reduced =>
        \A i \in 1..Len(residues_contacts) :
            residues_contacts[i].atoms_contacts
                = Cardinality(RowsOfPair(df_tmp, PositionPair(residues_contacts[i])))

\* C3: of every group of input rows that hold one pair of positions the
\* reducer keeps exactly one row, the first in input order among those of
\* minimum median distance.
C3_KeepsFirstMinimum ==
    PastExtraction =>
        /\ Reduced
        /\ \A g \in {PositionPair(df_tmp[i]) : i \in 1..Len(df_tmp)} :
              LET members == RowsOfPair(df_tmp, g)
                  minimal == {i \in members : \A j \in members :
                                 df_tmp[i].median_distance <= df_tmp[j].median_distance}
                  first == CHOOSE i \in minimal : \A j \in minimal : i <= j
                  kept == RowsOfPair(residues_contacts, g)
              IN  /\ Cardinality(kept) = 1
                  /\ \A k \in kept :
                        /\ residues_contacts[k].idx = df_tmp[first].idx
                        /\ residues_contacts[k].contact = df_tmp[first].contact
                        /\ residues_contacts[k].median_distance
                               = df_tmp[first].median_distance

\* a group of three rows whose minimum is held by the second and the third
C3_Witness ==
    /\ Reduced
    /\ Len(df_tmp) = 3
    /\ Len(residues_contacts) = 1
    /\ df_tmp[1].median_distance = 2
    /\ df_tmp[2].median_distance = 1
    /\ df_tmp[3].median_distance = 1
    /\ residues_contacts[1].idx = 1

-----------------------------------------------------------------------------
(* Properties of the heatmap matrices.  They are made of the reduced table *)
(* residues_contacts.                                                      *)

HeatmapSaved == pc = "heatmap_saved"

\* the labels of the positions P in ascending order
LabelsOf(P) == [k \in 1..Cardinality(P) |-> Label(Sorted(P)[k], ResidueOf(Sorted(P)[k]))]

\* the matrix holds, at every cell of the ordinates O and the abscissas A, the
\* column col of the row of df with these positions, and None when df has no
\* such row
HoldsColumn(matrix, df, O, A, col) ==
    /\ Len(matrix.values) = Cardinality(O)
    /\ \A i \in 1..Cardinality(O) :
          /\ Len(matrix.values[i]) = Cardinality(A)
          /\ \A j \in 1..Cardinality(A) :
                LET rows == RowsOfPair(df, <<Sorted(O)[i], Sorted(A)[j]>>)
                IN  IF rows = {}
                    THEN matrix.values[i][j] = NoCell
                    ELSE \A r \in rows : matrix.values[i][j] = <<df[r][col]>>

\* C15: the distance matrix and the contact-count matrix have the same row
\* labels, the distinct ordinate positions in ascending order, and the same
\* column labels, the distinct abscissa positions in ascending order; a cell
\* (o, a) is set in both exactly when the reduced table has a row with the
\* ordinate position o and the abscissa position a, and holds then the median
\* distance and the "atoms contacts" of that row; it is unset in both otherwise.
C15_MatricesOfReducedTable ==
    HeatmapSaved =>
        LET O == {residues_contacts[i].ordinate_position :
                      i \in 1..Len(residues_contacts)}
            A == {residues_contacts[i].abscissa_position :
                      i \in 1..Len(residues_contacts)}
        IN  /\ source_distances.index = LabelsOf(O)
            /\ source_nb_contacts.index = LabelsOf(O)
            /\ source_distances.columns = LabelsOf(A)
            /\ source_nb_contacts.columns = LabelsOf(A)
            /\ HoldsColumn(source_distances, residues_contacts, O, A,
                           "median_distance")
            /\ HoldsColumn(source_nb_contacts, residues_contacts, O, A,
                           "atoms_contacts")

\* the reduced rows (1,2) at the distance 2 and (2,1) at the distance 1: two
\* cells are set and the two cells of the diagonal are unset
C15_Witness ==
    /\ HeatmapSaved
    /\ Len(residues_contacts) = 2
    /\ source_distances.index = <<"1ALA", "2GLY">>
    /\ source_distances.columns = <<"1ALA", "2GLY">>
    /\ source_distances.values = <<<<NoCell, <<2>>>>, <<<<1>>, NoCell>>>>
    /\ source_nb_contacts.values = <<<<NoCell, <<1>>>>, <<<<1>>, NoCell>>>>

-----------------------------------------------------------------------------
(* Properties of the Outlier Filter.                                       *)

\* out holds, in the order of df and with the labels 0, 1, ..., the rows of df
\* whose positions are at least t apart, and no other row
IsOutlierSelection(df, t, out) ==
    LET far == {i \in 1..Len(df) :
                   Abs(df[i].ordinate_position - df[i].abscissa_position) >= t}
        rank(i) == Cardinality({j \in far : j <= i})
    IN  /\ Len(out) = Cardinality(far)
        /\ \A i \in far : out[rank(i)] = [df[i] EXCEPT !.idx = rank(i) - 1]
        /\ (t <= 0 => Len(out) = Len(df))

\* C4: for every reduced table and every integer threshold t, the filter
\* returns exactly the rows with |ordinate - abscissa| >= t, in their relative
\* order and labelled 0, 1, ...; with t <= 0 it returns every row.
C4_OutlierFilter ==
    [][(pc = "heatmap_saved" /\ pc' = "outliers_filtered")
           => IsOutlierSelection(residues_contacts, res_dist_thr', outliers')]_vars

\* the reduced table held the pairs (1,2) and (1,3), labelled 0 and 1; with
\* the threshold 2 the second alone is returned, labelled 0
C4_Witness ==
    /\ pc = "outliers_filtered"
    /\ res_dist_thr = 2
    /\ Len(df_tmp) = 2
    /\ PositionPair(df_tmp[1]) = <<1, 2>>
    /\ PositionPair(df_tmp[2]) = <<1, 3>>
    /\ df_tmp[2].idx = 1
    /\ Len(outliers) = 1
    /\ PositionPair(outliers[1]) = <<1, 3>>
    /\ outliers[1].idx = 0

-----------------------------------------------------------------------------
(* Properties of the Region-of-Interest Selector.  The table it reads is   *)
(* df_contacts_all and the oriented table it builds is df_tmp.             *)

InRoi(p) == roi # NoRoi /\ roi[1] <= p /\ p <= roi[2]

\* the row o of the oriented table is the row r read with the donor (asDonor)
\* or the acceptor as ordinate
IsOrientation(o, r, asDonor) ==
    /\ o.contact = r.contact
    /\ o.median_distance = r.median_distance
    /\ o.ordinate_type = (IF asDonor THEN "donor" ELSE "acceptor")
    /\ o.ordinate_position = (IF asDonor THEN r.donor_position ELSE r.acceptor_position)
    /\ o.ordinate_residue = (IF asDonor THEN r.donor_residue ELSE r.acceptor_residue)
    /\ o.abscissa_position = (IF asDonor THEN r.acceptor_position ELSE r.donor_position)
    /\ o.abscissa_residue = (IF asDonor THEN r.acceptor_residue ELSE r.donor_residue)

\* C8: with a region [lo, hi] the selector keeps a row exactly once if its donor
\* or its acceptor position lies in the region and drops it otherwise; the
\* ordinate of a kept row is the donor side whenever the donor position is in
\* the region, the acceptor side otherwise; with no region every row is kept
\* with the donor as ordinate.
C8_RoiSelection ==
    PastExtraction =>
        /\ Reduced
        /\ \A k \in 1..Len(df_tmp) :
              \E i \in 1..Len(df_contacts_all) : df_contacts_all[i].idx = df_tmp[k].idx
        /\ \A i \in 1..Len(df_contacts_all) :
              LET r == df_contacts_all[i]
                  copies == {k \in 1..Len(df_tmp) : df_tmp[k].idx = r.idx}
                  wanted == roi = NoRoi \/ InRoi(r.donor_position)
                                \/ InRoi(r.acceptor_position)
              IN  /\ Cardinality(copies) = (IF wanted THEN 1 ELSE 0)
                  /\ \A k \in copies :
                        IsOrientation(df_tmp[k], r,
                                      roi = NoRoi \/ InRoi(r.donor_position))

\* the region 2-3, a first row with the acceptor alone in it and a second row
\* with both sides in it: both are kept, the second one as a donor row
C8_Witness ==
    /\ Reduced
    /\ roi = <<2, 3>>
    /\ Len(df_contacts_all) = 2
    /\ df_contacts_all[1].donor_position = 1
    /\ df_contacts_all[1].acceptor_position = 2
    /\ df_contacts_all[2].donor_position = 3
    /\ df_contacts_all[2].acceptor_position = 2
    /\ Len(df_tmp) = 2
    /\ df_tmp[1].idx = 1 /\ df_tmp[1].ordinate_type = "donor"
    /\ df_tmp[2].idx = 0 /\ df_tmp[2].ordinate_type = "acceptor"

\* C9: a region whose bounds satisfy lo > hi is rejected: extract_roi or
\* extract_residues_contacts ends in an error and no contact table is returned.
C9_RejectsInvertedRoi ==
    (PastExtraction /\ roi # NoRoi /\ roi[1] > roi[2]) => pc = "failed"

-----------------------------------------------------------------------------
(* The domains part of a run: get_domains on the table read from the file. *)

DomainNames == <<"A", "B", "C", "D", "E", "F">>

DomainColor(i) == "#0000f" \o ToString(i)

\* rows is a domains table of at most n rows in file order, each with
\* 1 <= start <= stop <= maxPos
IsDomainsTable(rows, n, maxPos) ==
    \E k \in 0..n :
        \E t \in [1..k -> {iv \in (1..maxPos) \X (1..maxPos) : iv[1] <= iv[2]}] :
            rows = [i \in 1..k |-> [domain |-> DomainNames[i], start |-> t[i][1],
                                    stop |-> t[i][2], color |-> DomainColor(i)]]

IdleContacts ==
    /\ args_roi = <<>> /\ roi = NoRoi /\ df_contacts_all = NoTable
    /\ df_tmp = NoTable /\ residues_contacts = NoTable /\ res_dist_thr = 0
    /\ outliers = NoTable

\* the domains file alone is read
IdleFiles ==
    /\ columns = "numeric"
    /\ parameters = ReadableParameters(MaxDomPos)
    /\ args_domains = TRUE

InitDomains ==
    /\ pc = "domains_requested"
    /\ error = ""
    /\ IsDomainsTable(raw, MaxDomRows, MaxDomPos)
    /\ use_embedded \in BOOLEAN
    /\ domains = NoTable
    /\ IdleContacts
    /\ IdleUnique
    /\ IdleFiles
    /\ IdleHeatmap
    /\ IdleOutput

\* domains_data = get_domains(args.domains, args.embedded_domains)
GetDomains ==
    /\ pc = "domains_requested"
    /\ domains' = GetDomainsTable(raw, use_embedded)
    /\ pc' = "domains_filled"
    /\ UNCHANGED <<error, raw, use_embedded, contactsVars, uniqueVars, filesVars,
                   heatmapVars, outputVars>>

SpecDomains == InitDomains /\ [][GetDomains]_vars

-----------------------------------------------------------------------------
(* Properties of the Domain Interval Normalizer.                           *)

Filled == pc = "domains_filled"

\* the rows that are not embedded, in file order
Embedding(rows) == (1..Len(rows)) \ EmbeddedRawIdx(rows)

\* the rows are sorted by start, and the rows that are not embedded follow
\* one another without overlap: gaps and embedded rows are the only defects
GapsAndEmbeddedOnly(rows) ==
    /\ \A i \in 1..(Len(rows) - 1) : rows[i].start <= rows[i + 1].start
    /\ \A i, j \in Embedding(rows) : i < j => rows[i].stop < rows[j].start

\* the intervals of table that hold the position p
Holders(table, p) == {k \in 1..Len(table) : table[k].start <= p /\ p <= table[k].stop}

\* C5: whatever the table read (rows in file order, with gaps, embedded rows,
\* several embedded rows in one domain, an embedded row as last row) and
\* whatever use_embedded, every integer from 1 to the largest stop of the table
\* belongs to exactly one interval of the table get_domains returns.
C5_ExactCover ==
    (Filled /\ raw # <<>> /\ GapsAndEmbeddedOnly(raw)) =>
        \A p \in 1..Max({raw[i].stop : i \in 1..Len(raw)}) :
            Cardinality(Holders(domains, p)) = 1

\* the place of the domain the row at place i is embedded in
Parent(rows, i) == Max({j \in Embedding(rows) : j < i})

\* C6: with use_embedded, an embedded row splits its domain in three intervals:
\* the domain from its start to the row's start - 1, the row, and the domain
\* again from the row's stop + 1 to its own stop; also when the embedded row is
\* the last row of the table.
C6_EmbeddedSplitsParent ==
    (Filled /\ use_embedded /\ GapsAndEmbeddedOnly(raw)) =>
        \A i \in EmbeddedRawIdx(raw) :
            LET parent == raw[Parent(raw, i)]
                alone == /\ Parent(raw, i) = i - 1
                         /\ (i + 1) \notin EmbeddedRawIdx(raw)
                         /\ parent.start < raw[i].start
            IN  alone =>
                    \E k \in 1..(Len(domains) - 2) :
                        /\ domains[k] = [parent EXCEPT !.stop = raw[i].start - 1]
                        /\ domains[k + 1] = raw[i]
                        /\ domains[k + 2] = [parent EXCEPT !.start = raw[i].stop + 1]

\* the table starts at 1 and every row starts right after the stop of the
\* row before it
Gapless(rows) ==
    /\ rows # <<>>
    /\ rows[1].start = 1
    /\ \A i \in 2..Len(rows) : rows[i].start = rows[i - 1].stop + 1

\* C7: on a table without gap or overlap (sorted, starting at 1, every row
\* starting at the stop of the row before it plus 1) get_domains returns the
\* rows it read, with their names, starts, stops and colors, in their order,
\* for both values of use_embedded; so does get_domains on what it returned.
C7_IdempotentOnGapless ==
    (Filled /\ Gapless(raw)) =>
        /\ domains = raw
        /\ \A e \in BOOLEAN : GetDomainsTable(domains, e) = domains

\* a gapless table of three rows, filled in with use_embedded
C7_Witness ==
    /\ Filled
    /\ use_embedded
    /\ Len(raw) = 3
    /\ Gapless(raw)
    /\ raw[3].stop = 4
    /\ Len(domains) = 3

\* the stop of the row at place i is below the running maximum of the stops
\* of the rows before it
StopBelowRunningMax(rows, i) == \E j \in 1..(i - 1) : rows[i].stop < rows[j].stop

\* the table with the embedded rows deleted
WithoutEmbedded(rows) ==
    LET keep == {i \in 1..Len(rows) : ~StopBelowRunningMax(rows, i)}
        place(k) == CHOOSE i \in keep : Cardinality({j \in keep : j <= i}) = k
    IN  [k \in 1..Cardinality(keep) |-> rows[place(k)]]

\* C16: with use_embedded false every embedded row (a row whose stop is below
\* the running maximum stop of the rows before it) is skipped: get_domains
\* returns what it returns on the same table with the embedded rows deleted, no
\* name of an embedded row appears and each row that is not embedded keeps its
\* start and its stop.
C16_EmbeddedRowsSkipped ==
    (Filled /\ ~use_embedded) =>
        /\ \A e \in BOOLEAN : domains = GetDomainsTable(WithoutEmbedded(raw), e)
        /\ \A i \in 1..Len(raw) :
              IF StopBelowRunningMax(raw, i)
              THEN \A k \in 1..Len(domains) : domains[k].domain # raw[i].domain
              ELSE \E k \in 1..Len(domains) : domains[k] = raw[i]

\* a row embedded in the first row and followed by a third row: the first and
\* the third are returned, whole
C16_Witness ==
    /\ Filled
    /\ ~use_embedded
    /\ Len(raw) = 3
    /\ raw[1].start = 1 /\ raw[1].stop = 3
    /\ raw[2].start = 2 /\ raw[2].stop = 2
    /\ raw[3].start = 4 /\ raw[3].stop = 4
    /\ domains = <<raw[1], raw[3]>>

-----------------------------------------------------------------------------
(* The domains part of a run, from "if args.domains:" on: get_domains,     *)
(* update_domains on the table outliers_contacts returned, then            *)
(* acceptors_domains_involved.                                             *)

\* if args.domains:
IfDomains ==
    /\ pc = "outliers_filtered"
    /\ pc' = IF args_domains THEN "domains_requested" ELSE "finished"
    /\ UNCHANGED <<error, contactsVars, domainsVars, uniqueVars, filesVars,
                   heatmapVars, outputVars>>

\* outliers = update_domains(outliers, domains_data, path): the columns are
\* inserted in the caller's table, which outliers_contacts returned and which
\* is returned again, and the table is saved; whether df.insert() raises on a
\* table without a row depends on the library
UpdateDomainsOfOutliers ==
    /\ pc = "domains_filled"
    /\ \E raises \in (IF outliers = <<>> THEN BOOLEAN ELSE {FALSE}) :
           IF raises
           THEN /\ pc' = "failed"
                /\ error' = "IndexError"
                /\ UNCHANGED <<residues_contacts, outliers, written>>
           ELSE /\ pc' = "domains_updated"
                /\ error' = ""
                /\ outliers' = UpdateDomainsTable(outliers, domains)
                /\ residues_contacts' = outliers'
                /\ written' = written \cup {"outliers_csv"}
    /\ UNCHANGED <<args_roi, roi, df_contacts_all, df_tmp, res_dist_thr>>
    /\ UNCHANGED <<domainsVars, uniqueVars, filesVars, heatmapVars, source, exit_code>>

\* acceptors_domains_involved(outliers, domains_data, ...): the contacts by
\* domain, then the figure is saved
AcceptorsDomainsInvolved ==
    /\ pc = "domains_updated"
    /\ source' = AcceptorsDomainsData(outliers, domains)
    /\ written' = written \cup {"outliers_plot"}
    /\ pc' = "finished"
    /\ UNCHANGED <<error, contactsVars, domainsVars, uniqueVars, filesVars,
                   heatmapVars, exit_code>>

\* the run at "if args.domains:", with no region and the threshold 0: the
\* contacts table was reduced, drawn and filtered, the domains file is any
\* table of the protein
InitAnnotate ==
    /\ pc = "outliers_filtered"
    /\ error = ""
    /\ args_roi = <<>>
    /\ roi = NoRoi
    /\ IsContactTable(df_contacts_all, MaxAnnRows,
                      (1..MaxAnnPos) \X (1..MaxAnnPos), {1})
    /\ df_tmp = OrientContacts(df_contacts_all, NoRoi)
    /\ ~ReducerRaises(df_tmp)
    /\ res_dist_thr = 0
    /\ residues_contacts = OutliersContactsTable(GetResiduesInContact(df_tmp), 0)
    /\ outliers = residues_contacts
    /\ source_distances
           = HeatmapDistancesNbContacts(GetResiduesInContact(df_tmp)).source_distances
    /\ source_nb_contacts
           = HeatmapDistancesNbContacts(GetResiduesInContact(df_tmp)).source_nb_contacts
    /\ columns = "numeric"
    /\ parameters = ReadableParameters(MaxAnnPos)
    /\ args_domains = TRUE
    /\ IsDomainsTable(raw, MaxAnnDomRows, MaxAnnPos)
    /\ use_embedded \in BOOLEAN
    /\ domains = NoTable
    /\ IdleUnique
    /\ source = <<>>
    /\ written = {"heatmap"}
    /\ exit_code = -1

NextAnnotate ==
    IfDomains \/ GetDomains \/ UpdateDomainsOfOutliers \/ AcceptorsDomainsInvolved

SpecAnnotate == InitAnnotate /\ [][NextAnnotate]_vars

-----------------------------------------------------------------------------
(* Properties of the Domain Annotator.  The table it annotates is          *)
(* outliers, with the intervals of domains.                                *)

Annotated == pc = "domains_updated"

\* the name of the first interval, in table order, that holds the position
FirstHolder(table, p) ==
    IF Holders(table, p) = {} THEN NoDomain
    ELSE table[CHOOSE k \in Holders(table, p) : \A m \in Holders(table, p) : k <= m].domain

\* C11: for every contact row and each of its two sides, the annotator assigns
\* the name of the first interval, in table order, whose [start, stop] holds
\* the position of the side, and leaves the domain unset when no interval holds
\* it; for any interval table, also one with overlapping intervals.
C11_FirstIntervalWins ==
    Annotated =>
        \A i \in 1..Len(outliers) :
            /\ outliers[i].ordinate_domains
                   = FirstHolder(domains, outliers[i].ordinate_position)
            /\ outliers[i].abscissa_domains
                   = FirstHolder(domains, outliers[i].abscissa_position)

-----------------------------------------------------------------------------
(* Properties of the domain-level aggregate.  It is source, made of the    *)
(* annotated table outliers and of the intervals of domains.               *)

Aggregated == pc = "finished" /\ args_domains

\* the rows of the annotated table whose abscissa-side domain is name
RowsOfDomain(df, name) == SelectSeq(df, LAMBDA r : r.abscissa_domains = name)

\* C12: the aggregate maps each domain name that has at least one annotated
\* row with that abscissa-side domain to the sum of "atoms contacts" over
\* exactly those rows, each row counted once, also when the name labels several
\* intervals; a name with no such row is absent from the aggregate.
C12_SumOfMatchingRows ==
    Aggregated =>
        /\ {source[k].domain : k \in 1..Len(source)}
               = {domains[k].domain : k \in 1..Len(domains)}
                     \cap {outliers[i].abscissa_domains : i \in 1..Len(outliers)}
        /\ \A k, m \in 1..Len(source) : k # m => source[k].domain # source[m].domain
        /\ \A k \in 1..Len(source) :
              source[k].number_of_contacts
                  = SumColumn(RowsOfDomain(outliers, source[k].domain),
                              "atoms_contacts")

-----------------------------------------------------------------------------
(* Properties of the normalisation and the annotation together.            *)

ProteinPositions == 1..parameters.protein_length

\* C13: the intervals get_domains returns hold every position from 1 to the
\* protein length, so that the annotator names the domain of both sides of
\* every contact whose positions lie in that range and leaves none unset,
\* whatever the last stop of the domains table (a table of one row at least).
C13_EveryPositionAnnotated ==
    (Annotated /\ raw # <<>>) =>
        /\ \A p \in ProteinPositions : Holders(domains, p) # {}
        /\ \A i \in 1..Len(outliers) :
              (/\ outliers[i].ordinate_position \in ProteinPositions
               /\ outliers[i].abscissa_position \in ProteinPositions)
                  => /\ outliers[i].ordinate_domains # NoDomain
                     /\ outliers[i].abscissa_domains # NoDomain

-----------------------------------------------------------------------------
(* A whole run of the script, from the parsed arguments to the exit of the *)
(* process.                                                                *)

\* no --roi, a region, a malformed region
RunArguments == {<<>>, RoiArgument(1, MaxRunPos), <<"x">>}

\* what read_csv finds in the contacts CSV: numbers, a column missing, text in
\* the column of the distances, text in the columns of the positions
ColumnsKinds == {"numeric", "missing_column", "distance_text", "position_text"}

InitRun ==
    /\ pc = "start"
    /\ error = ""
    /\ args_roi \in RunArguments
    /\ roi = NoRoi
    /\ IsContactTable(df_contacts_all, MaxRunRows,
                      (1..MaxRunPos) \X (1..MaxRunPos), {1})
    /\ df_tmp = NoTable
    /\ residues_contacts = NoTable
    /\ res_dist_thr = 0
    /\ outliers = NoTable
    /\ columns \in (IF df_contacts_all = <<>>
                    THEN {"numeric", "missing_column"}
                    ELSE ColumnsKinds)
    /\ parameters \in {[readable |-> b, protein_length |-> MaxRunPos] : b \in BOOLEAN}
    /\ args_domains \in BOOLEAN
    /\ IF args_domains
       THEN IsDomainsTable(raw, MaxRunDomRows, MaxRunPos)
       ELSE raw = NoTable
    /\ use_embedded \in BOOLEAN
    /\ domains = NoTable
    /\ IdleUnique
    /\ IdleHeatmap
    /\ IdleOutput

\* the process ends: with the status 1 after an exception that nothing
\* catches, with the status 0 at the end of the script
Exit ==
    /\ pc \in {"finished", "failed"}
    /\ exit_code' = (IF pc = "failed" THEN 1 ELSE 0)
    /\ pc' = "exited"
    /\ UNCHANGED <<error, contactsVars, domainsVars, uniqueVars, filesVars,
                   heatmapVars, source, written>>

NextRun ==
    \/ ExtractRoi
    \/ GetContactsAnalysisParameters
    \/ ExtractResiduesContacts
    \/ HeatmapContacts
    \/ OutliersContacts
    \/ IfDomains
    \/ GetDomains
    \/ UpdateDomainsOfOutliers
    \/ AcceptorsDomainsInvolved
    \/ Exit

SpecRun == InitRun /\ [][NextRun]_vars

-----------------------------------------------------------------------------
(* Properties of a whole run.                                              *)

Exited == pc = "exited"

\* the failures the run met
MalformedRegion == error = "ArgumentTypeError"

UnreadableParameters == error = "OSError"

MissingColumn == columns = "missing_column" /\ error = "AttributeError"

WrongColumnType ==
    /\ columns \in {"distance_text", "position_text"}
    /\ error \in {"AttributeError", "TypeError"}

HandledFailure ==
    MalformedRegion \/ UnreadableParameters \/ MissingColumn \/ WrongColumnType

\* C14: a run that meets a malformed region string, a missing column of the
\* contacts table, a column of the wrong type or an unreadable parameters
\* document ends with the exit code 1 and has written none of the heatmap, the
\* annotated contacts CSV and the domain bar chart; a run that meets no failure
\* ends with the exit code 0.
C14_AllOrNothing ==
    Exited =>
        /\ HandledFailure => (exit_code = 1 /\ written = {})
        /\ error = "" => exit_code = 0

\* the step is the call of outliers_contacts that returned
FilterReturns == pc = "heatmap_saved" /\ pc' = "outliers_filtered"

\* the step is the call of update_domains that returned
AnnotatorReturns == pc = "domains_filled" /\ pc' = "domains_updated"

\* C17: outliers_contacts(df, t) and update_domains(df, domains, path) leave
\* the table they receive unchanged and return a new one: after the call the
\* table of the caller, which residues_contacts names for both calls, has the
\* rows, the index and the columns it had before the call.
C17_CallerTableUnchanged ==
    [][(FilterReturns \/ AnnotatorReturns)
           => residues_contacts' = residues_contacts]_vars

-----------------------------------------------------------------------------
(* unique_residues_pairs on a table of atom contacts.                      *)

InitUnique ==
    /\ pc = "pairs_read"
    /\ error = ""
    /\ IsContactTable(df_not_unique, MaxRows, (1..MaxPos) \X (1..MaxPos), 1..MaxDist)
    /\ df_uniques = NoTable
    /\ IdleContacts
    /\ IdleDomains
    /\ WellFormedFiles((1..MaxPos) \X (1..MaxPos))
    /\ IdleHeatmap
    /\ IdleOutput

\* unique_residues_pairs(df_not_unique, "median distance")
UniqueResiduesPairs ==
    /\ pc = "pairs_read"
    /\ df_uniques' = UniqueResiduesPairsTable(df_not_unique, "median_distance")
    /\ pc' = "pairs_aggregated"
    /\ UNCHANGED <<error, df_not_unique, contactsVars, domainsVars, filesVars,
                   heatmapVars, outputVars>>

SpecUnique == InitUnique /\ [][UniqueResiduesPairs]_vars

-----------------------------------------------------------------------------
(* Properties of the Unique-Pair Aggregator.                               *)

DonorAcceptor(r) == <<r.donor_position, r.acceptor_position>>

OutputPair(r) == <<r.donor_positions, r.acceptor_positions>>

\* the pair p comes before the pair q: lower donor, or same donor and lower
\* acceptor
PairBefore(p, q) == p[1] < q[1] \/ (p[1] = q[1] /\ p[2] < q[2])

\* C10: whatever the order of the input rows, the aggregator returns its rows
\* sorted by ascending donor position and then ascending acceptor position,
\* one row for each distinct (donor position, acceptor position) pair of the
\* input; the sequence of pairs is so the same for two inputs that are
\* permutations of each other, being fixed by the set of the input's pairs.
C10_SortedUniquePairs ==
    pc = "pairs_aggregated" =>
        /\ \A i \in 1..(Len(df_uniques) - 1) :
              PairBefore(OutputPair(df_uniques[i]), OutputPair(df_uniques[i + 1]))
        /\ {OutputPair(df_uniques[i]) : i \in 1..Len(df_uniques)}
               = {DonorAcceptor(df_not_unique[i]) : i \in 1..Len(df_not_unique)}

\* three rows read in descending order of their pairs and returned in
\* ascending order
C10_Witness ==
    /\ pc = "pairs_aggregated"
    /\ Len(df_not_unique) = 3
    /\ DonorAcceptor(df_not_unique[1]) = <<2, 1>>
    /\ DonorAcceptor(df_not_unique[2]) = <<1, 2>>
    /\ DonorAcceptor(df_not_unique[3]) = <<1, 1>>
    /\ Len(df_uniques) = 3
    /\ OutputPair(df_uniques[1]) = <<1, 1>>
    /\ OutputPair(df_uniques[2]) = <<1, 2>>
    /\ OutputPair(df_uniques[3]) = <<2, 1>>

====
